---- MODULE Spec2Model ----
(***************************************************************************)
(* Model of app.py, the Streamlit credit-analysis application.             *)
(*                                                                         *)
(* One process serves several browser sessions.  Every interaction of a    *)
(* session re-runs the whole script: the run loads the prediction log      *)
(* (line 88), obtains the cached model (line 161), renders the sidebar     *)
(* (lines 165-199), serves the 'Analisar Credito' button (lines 249-413)   *)
(* and then the batch upload (lines 421-452).                              *)
(*                                                                         *)
(* Probabilities are kept in permille (0..Escala), days as integers.       *)
(***************************************************************************)
EXTENDS Integers, Sequences, FiniteSets, TLC

VARIABLES
    arquivo,     \* logs_predicoes.csv on disk: [exists, header, rows]
    gravavel,    \* whether the file system accepts a write of the log file
    artefato,    \* modelo_credito.pkl on disk
    modelo,      \* the st.cache_resource entry of carregar_modelo
    agora,       \* datetime.now(), in days
    historico,   \* st.session_state.historico, per session
    pc,          \* per session: position of the current script run
    df_log,      \* per session: the run's global df_log (line 88)
    tela,        \* per session: what the current run has rendered so far
    risco,       \* an evaluation of categorizar_risco: argument and result
    arquivo0,    \* history: the log file as it was when the process started
    feitas,      \* history: the completed scorings, in order
    visto        \* history, per session: completed scorings when the run loaded

vars == <<arquivo, gravavel, artefato, modelo, agora, historico, pc, df_log,
          tela, risco, arquivo0, feitas, visto>>

----------------------------------------------------------------------------
(* Bounds of the model *)

MaxFeitas == 2
MaxDia == 45
Salto == 15

(* Program constants *)

Escala == 1000
LimiarBaixo == 700
LimiarMedio == 400
Janela == 30

Sessoes == {1, 2}

Nenhum == -1

NaN == -1

Range(f) == {f[i] : i \in DOMAIN f}

IndexOf(seq, x) == CHOOSE i \in 1..Len(seq) : seq[i] = x

RECURSIVE SumSeq(_)
SumSeq(seq) == IF seq = <<>> THEN 0 ELSE Head(seq) + SumSeq(Tail(seq))

SelectIdx(seq, Test(_)) ==
    LET RECURSIVE Go(_)
        Go(i) == IF i > Len(seq) THEN <<>>
                 ELSE IF Test(seq[i]) THEN <<seq[i]>> \o Go(i + 1)
                 ELSE Go(i + 1)
    IN Go(1)

----------------------------------------------------------------------------
(* categorizar_risco, lines 117-123 *)

categorizar_risco_limiar_exclusivo(probabilidade) ==
    IF probabilidade > LimiarBaixo THEN <<"Baixo Risco", "success">>
    ELSE IF probabilidade >= LimiarMedio THEN <<"Risco Medio", "warning">>
    ELSE <<"Alto Risco", "danger">>

categorizar_risco(probabilidade) ==
    IF probabilidade >= LimiarBaixo THEN <<"Baixo Risco", "success">>
    ELSE IF probabilidade >= LimiarMedio THEN <<"Risco Medio", "warning">>
    ELSE <<"Alto Risco", "danger">>

----------------------------------------------------------------------------
(* The prediction log: data frames and the CSV file, lines 68-88, 274-275 *)

ColunasLog ==
    <<"timestamp", "idade", "renda", "score_credito", "experiencia_credito",
      "probabilidade", "predicao">>

FrameVazio == [columns |-> ColunasLog, rows |-> <<>>]

ArquivoAusente == [exists |-> FALSE, header |-> <<>>, rows |-> <<>>]

(* pd.read_csv: the header names the columns, each record is read by position *)
read_csv(f) ==
    [columns |-> f.header,
     rows |-> [i \in 1..Len(f.rows) |->
                 [c \in Range(f.header) |-> f.rows[i][IndexOf(f.header, c)]]]]

(* pd.read_csv(..., parse_dates=['timestamp']) raises on a file without data
   (EmptyDataError) and on a header without the column 'timestamp' (ValueError) *)
LeituraFalha(f) == f.header = <<>> \/ "timestamp" \notin Range(f.header)

carregar_log_predicoes(f) ==
    IF f.exists
    THEN IF LeituraFalha(f) THEN FrameVazio ELSE read_csv(f)
    ELSE FrameVazio

concat_invertido(df, linha) ==
    LET cols == df.columns \o
                SelectSeq(ColunasLog, LAMBDA c : c \notin Range(df.columns))
        n == Len(df.rows)
    IN [columns |-> cols,
        rows |-> [i \in 1..(n + 1) |->
                    [c \in Range(cols) |->
                       IF i > 1
                       THEN IF c \in DOMAIN df.rows[i - 1] THEN df.rows[i - 1][c]
                            ELSE NaN
                       ELSE IF c \in DOMAIN linha THEN linha[c] ELSE NaN]]]

(* pd.concat([df, pd.DataFrame([linha])], ignore_index=True): the columns of
   df, then those of linha that df lacks; a missing cell is NaN *)
concat(df, linha) ==
    LET cols == df.columns \o
                SelectSeq(ColunasLog, LAMBDA c : c \notin Range(df.columns))
        n == Len(df.rows)
    IN [columns |-> cols,
        rows |-> [i \in 1..(n + 1) |->
                    [c \in Range(cols) |->
                       IF i <= n
                       THEN IF c \in DOMAIN df.rows[i] THEN df.rows[i][c] ELSE NaN
                       ELSE IF c \in DOMAIN linha THEN linha[c] ELSE NaN]]]

(* df.to_csv(LOG_FILE, index=False): the whole file is rewritten *)
to_csv(df) ==
    [exists |-> TRUE,
     header |-> df.columns,
     rows |-> [i \in 1..Len(df.rows) |->
                 [j \in 1..Len(df.columns) |-> df.rows[i][df.columns[j]]]]]

gravar_log_so_a_nova(arq, df, linha) == to_csv(concat(FrameVazio, linha))

gravar_log_modo_append(arq, df, linha) ==
    [exists |-> TRUE,
     header |-> IF arq.exists THEN arq.header ELSE ColunasLog,
     rows |-> arq.rows \o <<[j \in 1..Len(ColunasLog) |-> linha[ColunasLog[j]]]>>]

(* lines 274-275: what the log file becomes when the run with frame df
   writes linha *)
gravar_log(arq, df, linha) == to_csv(concat(df, linha))

nova_linha(cliente, probabilidade, decisao, now) ==
    [timestamp |-> now, idade |-> cliente[1], renda |-> cliente[2],
     score_credito |-> cliente[3], experiencia_credito |-> cliente[4],
     probabilidade |-> probabilidade, predicao |-> decisao]

----------------------------------------------------------------------------
(* The model artefact, lines 91-114.  The unpickled classifier is external:
   it is represented by its feature count n and a weight vector w. *)

ModeloNone == [estado |-> "None", n |-> 0, w |-> <<>>]

CacheVazio == [carregado |-> FALSE, valor |-> ModeloNone, msg |-> ""]

carregar_modelo_sem_cache(cache, art) ==
    [carregado |-> TRUE,
     valor |-> IF art.estado = "ok" THEN art ELSE ModeloNone,
     msg |-> IF art.estado = "ausente" THEN "Modelo nao encontrado"
             ELSE IF art.estado = "ok" THEN "" ELSE "Erro ao carregar modelo"]

(* @st.cache_resource: the body runs once per process, its return value
   (None included) is kept *)
carregar_modelo(cache, art) ==
    IF cache.carregado THEN cache
    ELSE [carregado |-> TRUE,
          valor |-> IF art.estado = "ok" THEN art ELSE ModeloNone,
          msg |-> IF art.estado = "ausente" THEN "Modelo nao encontrado"
                  ELSE IF art.estado = "ok" THEN ""
                  ELSE "Erro ao carregar modelo"]

(* modelo.predict_proba(dados)[k][1] and modelo.predict(dados)[k] of one row *)
predict_proba(m, x) ==
    SumSeq([i \in 1..m.n |-> m.w[i] * x[i]]) % (Escala + 1)

predict(m, x) == IF 2 * predict_proba(m, x) > Escala THEN 1 ELSE 0

(* sklearn raises when the input has no row, or not n columns *)
PredicaoFalha(m, dados) ==
    dados = <<>> \/ \E k \in 1..Len(dados) : Len(dados[k]) # m.n

fazer_predicao(m, dados) ==
    IF PredicaoFalha(m, dados) THEN <<Nenhum, Nenhum>>
    ELSE <<predict_proba(m, dados[1]), predict(m, dados[1])>>

----------------------------------------------------------------------------
(* Drift monitor of the sidebar, lines 188-199 *)

(* Series.mean(): NaN cells are skipped; the mean of no value is NaN.
   f"{x:.1f}": the mean in tenths, rounded half to even *)
media_1f(valores) ==
    LET presentes == SelectSeq(valores, LAMBDA v : v # NaN)
        num == 10 * SumSeq(presentes)
        den == Len(presentes)
        q == num \div den
        r == num % den
    IN IF den = 0 THEN NaN
       ELSE IF 2 * r < den THEN q
       ELSE IF 2 * r > den THEN q + 1
       ELSE IF q % 2 = 0 THEN q ELSE q + 1

Idades(linhas) == [i \in 1..Len(linhas) |-> linhas[i]["idade"]]

SemDrift == [tipo |-> "caption", valor |-> NaN]

monitor_sem_fallback(df, now) ==
    IF df.rows # <<>> /\ "idade" \in Range(df.columns)
    THEN LET limite_30d == now - Janela
             ultimos_30d == SelectSeq(df.rows, LAMBDA l :
                               l["timestamp"] # NaN /\ l["timestamp"] >= limite_30d)
         IN [tipo |-> "metric", valor |-> media_1f(Idades(ultimos_30d))]
    ELSE SemDrift

monitor_drift(df, now) ==
    IF df.rows # <<>> /\ "idade" \in Range(df.columns)
    THEN LET limite_30d == now - Janela
             ultimos_30d == SelectSeq(df.rows, LAMBDA l :
                               l["timestamp"] # NaN /\ l["timestamp"] >= limite_30d)
         IN [tipo |-> "metric",
             valor |-> IF ultimos_30d # <<>>
                       THEN media_1f(Idades(ultimos_30d))
                       ELSE media_1f(Idades(df.rows))]
    ELSE SemDrift

----------------------------------------------------------------------------
(* What a run renders *)

SemResultado ==
    [mostrado |-> FALSE, decisao |-> Nenhum, probabilidade |-> Nenhum,
     categoria |-> ""]

SemUpload == [exists |-> FALSE, header |-> <<>>, rows |-> <<>>]

SemLote ==
    [mostrado |-> FALSE, enviado |-> SemUpload, columns |-> <<>>, rows |-> <<>>]

TelaVazia ==
    [hist |-> <<>>, drift |-> SemDrift, erros |-> {},
     resultado |-> SemResultado, lote |-> SemLote]

----------------------------------------------------------------------------
(* Batch analysis, lines 421-452 *)

colunas_esperadas == <<"idade", "renda", "score_credito", "experiencia_credito">>

(* df[nome] = valores: an existing column is overwritten in place, a new one
   is added last *)
atribuir_coluna(df, nome, valores) ==
    [columns |-> IF nome \in Range(df.columns) THEN df.columns
                 ELSE Append(df.columns, nome),
     rows |-> [i \in 1..Len(df.rows) |->
                 [c \in Range(df.columns) \cup {nome} |->
                    IF c = nome THEN valores[i] ELSE df.rows[i][c]]]]

X_lote_por_posicao(df) ==
    LET k == IF Len(df.columns) < Len(colunas_esperadas) THEN Len(df.columns)
             ELSE Len(colunas_esperadas)
    IN [i \in 1..Len(df.rows) |-> [j \in 1..k |-> df.rows[i][df.columns[j]]]]

(* lines 428-432: the four named columns in canonical order when all are
   present, otherwise the table as it is *)
X_lote(df) ==
    IF \A col \in Range(colunas_esperadas) : col \in Range(df.columns)
    THEN [i \in 1..Len(df.rows) |->
            [j \in 1..Len(colunas_esperadas) |-> df.rows[i][colunas_esperadas[j]]]]
    ELSE [i \in 1..Len(df.rows) |->
            [j \in 1..Len(df.columns) |-> df.rows[i][df.columns[j]]]]

(* lines 425-438 inside the try: <<ok, table>> with ok FALSE when an
   exception is raised *)
processar_lote(m, upload) ==
    IF ~upload.exists \/ upload.header = <<>> THEN <<FALSE, SemLote>>
    ELSE LET df_lote == read_csv(upload)
             X == X_lote(df_lote)
         IN IF PredicaoFalha(m, X) THEN <<FALSE, SemLote>>
            ELSE LET preds_proba_lote == [i \in 1..Len(X) |-> predict_proba(m, X[i])]
                     preds_lote == [i \in 1..Len(X) |-> predict(m, X[i])]
                     com_prob == atribuir_coluna(df_lote, "Probabilidade",
                                                 preds_proba_lote)
                     com_res == atribuir_coluna(com_prob, "Resultado",
                                   [i \in 1..Len(X) |->
                                      IF preds_lote[i] = 1 THEN "Aprovado"
                                      ELSE "Negado"])
                 IN <<TRUE, [mostrado |-> TRUE, enviado |-> upload,
                             columns |-> com_res.columns,
                             rows |-> com_res.rows]>>

----------------------------------------------------------------------------
(* Inputs and initial states *)

Clientes == {<<25, 3000, 600, 1>>, <<60, 500, 425, 0>>}

LinhaAntiga == <<0, 40, 2000, 500, 2, 300, 0>>

ArquivosBemFormados ==
    {[exists |-> TRUE, header |-> ColunasLog, rows |-> <<>>],
     [exists |-> TRUE, header |-> ColunasLog, rows |-> <<LinhaAntiga>>]}

(* a file of no bytes, and headers of other schemas, without and with the
   column 'timestamp' *)
ArquivosIncompativeis ==
    {[exists |-> TRUE, header |-> <<>>, rows |-> <<>>],
     [exists |-> TRUE, header |-> <<"data", "idade">>, rows |-> <<<<0, 33>>>>],
     [exists |-> TRUE, header |-> <<"timestamp", "age">>, rows |-> <<<<0, 33>>>>]}

ArquivosIniciais ==
    {ArquivoAusente} \cup ArquivosBemFormados \cup ArquivosIncompativeis

ArtefatosBons ==
    {[estado |-> "ok", n |-> 4, w |-> <<7, 1, 3, 11>>],
     [estado |-> "ok", n |-> 4, w |-> <<2, 5, 1, 40>>],
     [estado |-> "ok", n |-> 3, w |-> <<1, 1, 1>>]}

ArtefatosRuins ==
    {[estado |-> "ausente", n |-> 0, w |-> <<>>],
     [estado |-> "corrompido", n |-> 0, w |-> <<>>]}

(* uploaded files: tables with the named columns out of order among other
   columns, tables without them, a table without rows and a file that is no
   CSV table *)
Uploads ==
    {[exists |-> TRUE, header |-> <<"score_credito", "nome", "idade",
                                    "experiencia_credito", "renda">>,
      rows |-> <<<<600, 7, 25, 1, 3000>>, <<425, 8, 60, 0, 500>>>>],
     [exists |-> TRUE, header |-> <<"renda", "Probabilidade", "idade",
                                    "score_credito", "experiencia_credito">>,
      rows |-> <<<<3000, 5, 25, 600, 1>>>>],
     [exists |-> TRUE, header |-> <<"a", "b", "c", "d">>,
      rows |-> <<<<60, 500, 425, 0>>>>],
     [exists |-> TRUE, header |-> <<"a", "b", "c">>, rows |-> <<<<1, 2, 3>>>>],
     [exists |-> TRUE, header |-> colunas_esperadas, rows |-> <<>>],
     [exists |-> TRUE, header |-> <<>>, rows |-> <<>>]}

SemRisco == [p |-> Nenhum, categoria |-> "", tipo |-> ""]

(* The process starts Janela days after day 0, the day of the entries that
   are already in the log file. *)
Init ==
    /\ arquivo \in ArquivosIniciais
    /\ arquivo0 = arquivo
    /\ gravavel = TRUE
    /\ artefato \in ArtefatosBons \cup ArtefatosRuins
    /\ modelo = CacheVazio
    /\ agora = Janela
    /\ historico = [s \in Sessoes |-> <<>>]
    /\ pc = [s \in Sessoes |-> "idle"]
    /\ df_log = [s \in Sessoes |-> FrameVazio]
    /\ tela = [s \in Sessoes |-> TelaVazia]
    /\ risco = SemRisco
    /\ feitas = <<>>
    /\ visto = [s \in Sessoes |-> 0]

----------------------------------------------------------------------------
(* One script run of a session, in the steps at which it touches shared state *)

(* lines 62-199 with the model loaded; lines 508-510 without *)
IniciarRun(s) ==
    /\ pc[s] = "idle"
    /\ LET df == carregar_log_predicoes(arquivo)
           m == carregar_modelo(modelo, artefato)
       IN /\ modelo' = m
          /\ IF m.valor # ModeloNone
             THEN /\ pc' = [pc EXCEPT ![s] = "form"]
                  /\ df_log' = [df_log EXCEPT ![s] = df]
                  /\ tela' = [tela EXCEPT ![s] =
                                [TelaVazia EXCEPT !.hist = historico[s],
                                                  !.drift = monitor_drift(df, agora)]]
             ELSE /\ pc' = [pc EXCEPT ![s] = "fim"]
                  /\ df_log' = [df_log EXCEPT ![s] = df]
                  /\ tela' = [tela EXCEPT ![s] =
                                [TelaVazia EXCEPT !.erros =
                                   {m.msg, "Nao foi possivel carregar o modelo"}]]
    /\ visto' = [visto EXCEPT ![s] = Len(feitas)]
    /\ UNCHANGED <<arquivo, gravavel, artefato, agora, historico, risco,
                   arquivo0, feitas>>

item_historico(probabilidade, decisao, now) ==
    [hora |-> now,
     resultado |-> IF decisao = 1 THEN "Aprovado" ELSE "Negado",
     probabilidade |-> probabilidade]

(* lines 249-413: the button 'Analisar Credito' is pressed *)
Analisar(s, cliente) ==
    /\ pc[s] = "form"
    /\ Len(feitas) < MaxFeitas
    /\ SumSeq([t \in Sessoes |-> Len(historico[t])]) < MaxFeitas
    /\ LET dados_cliente == <<cliente>>
           pd == fazer_predicao(modelo.valor, dados_cliente)
           probabilidade == pd[1]
           decisao == pd[2]
           linha == nova_linha(cliente, probabilidade, decisao, agora)
       IN IF probabilidade = Nenhum
          THEN /\ tela' = [tela EXCEPT ![s].erros = @ \cup {"Erro na predicao"}]
               /\ pc' = [pc EXCEPT ![s] = "lote"]
               /\ UNCHANGED <<arquivo, historico, df_log, feitas>>
          ELSE /\ historico' = [historico EXCEPT ![s] =
                                  Append(@, item_historico(probabilidade, decisao,
                                                           agora))]
               /\ IF gravavel
                  THEN /\ arquivo' = gravar_log(arquivo, df_log[s], linha)
                       /\ df_log' = [df_log EXCEPT ![s] = concat(@, linha)]
                       /\ feitas' = Append(feitas,
                                      [sessao |-> s, cliente |-> cliente,
                                       probabilidade |-> probabilidade,
                                       decisao |-> decisao, hora |-> agora,
                                       visto |-> visto[s],
                                       base |-> Len(df_log[s].rows)])
                       /\ tela' = [tela EXCEPT ![s].resultado =
                                     [mostrado |-> TRUE, decisao |-> decisao,
                                      probabilidade |-> probabilidade,
                                      categoria |->
                                        categorizar_risco(probabilidade)[1]]]
                       /\ pc' = [pc EXCEPT ![s] = "lote"]
                  ELSE \* to_csv raises: nothing catches it, the run ends
                       /\ tela' = [tela EXCEPT ![s].erros =
                                     @ \cup {"excecao em to_csv"}]
                       /\ pc' = [pc EXCEPT ![s] = "fim"]
                       /\ UNCHANGED <<arquivo, df_log, feitas>>
    /\ UNCHANGED <<gravavel, artefato, modelo, agora, risco, arquivo0, visto>>

(* the run was triggered by something other than the button *)
SemAnalise(s) ==
    /\ pc[s] = "form"
    /\ pc' = [pc EXCEPT ![s] = "lote"]
    /\ UNCHANGED <<arquivo, gravavel, artefato, modelo, agora, historico,
                   df_log, tela, risco, arquivo0, feitas, visto>>

AnaliseEmLote_gravando(s, upload) ==
    /\ pc[s] = "lote"
    /\ upload.exists
    /\ LET r == processar_lote(modelo.valor, upload)
       IN /\ tela' = [tela EXCEPT ![s].lote = r[2]]
          /\ arquivo' = IF r[1] THEN to_csv(concat(df_log[s], [timestamp |-> agora]))
                        ELSE arquivo
    /\ pc' = [pc EXCEPT ![s] = "fim"]
    /\ UNCHANGED <<gravavel, artefato, modelo, agora, historico, df_log, risco,
                   arquivo0, feitas, visto>>

(* lines 423-452 with a file in the uploader *)
AnaliseEmLote(s, upload) ==
    /\ pc[s] = "lote"
    /\ upload.exists
    /\ LET r == processar_lote(modelo.valor, upload)
       IN tela' = [tela EXCEPT ![s] =
                     IF r[1] THEN [@ EXCEPT !.lote = r[2]]
                     ELSE [@ EXCEPT !.erros =
                             @ \cup {"Erro ao processar arquivo CSV"}]]
    /\ pc' = [pc EXCEPT ![s] = "fim"]
    /\ UNCHANGED <<arquivo, gravavel, artefato, modelo, agora, historico, df_log,
                   risco, arquivo0, feitas, visto>>

(* no file in the uploader *)
SemLoteEnviado(s) ==
    /\ pc[s] = "lote"
    /\ pc' = [pc EXCEPT ![s] = "fim"]
    /\ UNCHANGED <<arquivo, gravavel, artefato, modelo, agora, historico, df_log,
                   tela, risco, arquivo0, feitas, visto>>

(* the run ends (footer, lines 512-519, or the uncaught exception): the page
   is delivered and the run's globals are discarded *)
TerminarRun(s) ==
    /\ pc[s] = "fim"
    /\ pc' = [pc EXCEPT ![s] = "idle"]
    /\ df_log' = [df_log EXCEPT ![s] = FrameVazio]
    /\ tela' = [tela EXCEPT ![s] = TelaVazia]
    /\ visto' = [visto EXCEPT ![s] = 0]
    /\ UNCHANGED <<arquivo, gravavel, artefato, modelo, agora, historico, risco,
                   arquivo0, feitas>>

----------------------------------------------------------------------------
(* The environment *)

(* days pass between script runs (a run lasts milliseconds) *)
PassarTempo ==
    /\ \A s \in Sessoes : pc[s] = "idle"
    /\ agora + Salto <= MaxDia
    /\ agora' = agora + Salto
    /\ UNCHANGED <<arquivo, gravavel, artefato, modelo, historico, pc, df_log,
                   tela, risco, arquivo0, feitas, visto>>

(* the log file becomes read-only, or writable again, between script runs *)
MudarPermissao ==
    /\ \A s \in Sessoes : pc[s] = "idle"
    /\ gravavel' = ~gravavel
    /\ UNCHANGED <<arquivo, artefato, modelo, agora, historico, pc, df_log,
                   tela, risco, arquivo0, feitas, visto>>

(* a missing or corrupt artefact is replaced by a good one *)
CorrigirArtefato ==
    /\ artefato \in ArtefatosRuins
    /\ artefato' \in ArtefatosBons
    /\ UNCHANGED <<arquivo, gravavel, modelo, agora, historico, pc, df_log,
                   tela, risco, arquivo0, feitas, visto>>

(* the process is restarted: the cache and every session are lost *)
Reiniciar ==
    /\ modelo.carregado
    /\ modelo' = CacheVazio
    /\ historico' = [s \in Sessoes |-> <<>>]
    /\ pc' = [s \in Sessoes |-> "idle"]
    /\ df_log' = [s \in Sessoes |-> FrameVazio]
    /\ tela' = [s \in Sessoes |-> TelaVazia]
    /\ visto' = [s \in Sessoes |-> 0]
    /\ UNCHANGED <<arquivo, gravavel, artefato, agora, risco, arquivo0, feitas>>

Execucao ==
    \/ \E s \in Sessoes : IniciarRun(s)
    \/ \E s \in Sessoes, cliente \in Clientes : Analisar(s, cliente)
    \/ \E s \in Sessoes : SemAnalise(s)
    \/ \E s \in Sessoes : SemLoteEnviado(s)
    \/ \E s \in Sessoes : TerminarRun(s)

(* The application with a good artefact in place: runs of two sessions that
   upload no file, the clock and the permission of the log file *)
Next ==
    \/ Execucao
    \/ PassarTempo
    \/ MudarPermissao

ArtefatoPadrao == [estado |-> "ok", n |-> 4, w |-> <<7, 1, 3, 11>>]

InitLog == Init /\ artefato = ArtefatoPadrao

Spec == InitLog /\ [][Next]_vars

(* The application over every artefact, with uploads, repairs of the
   artefact and restarts of the process *)
NextModelo ==
    \/ Execucao
    \/ \E s \in Sessoes, upload \in Uploads : AnaliseEmLote(s, upload)
    \/ CorrigirArtefato
    \/ Reiniciar

InitModelo == Init /\ arquivo = ArquivoAusente

SpecModelo == InitModelo /\ [][NextModelo]_vars

(* categorizar_risco applied to every probability, call after call *)
Categorizar(p) ==
    /\ risco' = [p |-> p, categoria |-> categorizar_risco(p)[1],
                 tipo |-> categorizar_risco(p)[2]]
    /\ UNCHANGED <<arquivo, gravavel, artefato, modelo, agora, historico, pc,
                   df_log, tela, arquivo0, feitas, visto>>

NextRisco == \E p \in 0..Escala : Categorizar(p)

InitRisco == Init /\ arquivo = ArquivoAusente /\ artefato = ArtefatoPadrao

SpecRisco == InitRisco /\ [][NextRisco]_vars

----------------------------------------------------------------------------
(* C1: whatever calls came before, the category returned for a probability p
   is "Baixo Risco" iff p >= 0.7, "Risco Medio" iff 0.4 <= p < 0.7 and
   "Alto Risco" iff p < 0.4 *)
C1_Categorias ==
    risco.p # Nenhum =>
        /\ risco.categoria = "Baixo Risco" <=> 10 * risco.p >= 7 * Escala
        /\ risco.categoria = "Risco Medio" <=>
              (10 * risco.p >= 4 * Escala /\ 10 * risco.p < 7 * Escala)
        /\ risco.categoria = "Alto Risco" <=> 10 * risco.p < 4 * Escala

(* the boundary 0.7 has been classified, as low risk *)
C1_Witness ==
    /\ 10 * risco.p = 7 * Escala
    /\ risco.categoria = "Baixo Risco"

----------------------------------------------------------------------------
(* Statements about the log file *)

Ultimo(seq) == seq[Len(seq)]

(* the record a completed scoring is expected to leave in the file *)
RegistroDe(f) ==
    <<f.hora, f.cliente[1], f.cliente[2], f.cliente[3], f.cliente[4],
      f.probabilidade, f.decisao>>

UmaSessaoSo == \A k \in 1..Len(feitas) : feitas[k].sessao = feitas[1].sessao

(* C2: from an absent or well-formed log file, after N >= 1 completed
   scorings, all of one session, the file has the fixed header and holds its
   former entries followed by the N entries of the scorings, in order, each
   with the inputs, probability and decision of its scoring; with N = 0 the
   file is as it was *)
C2_LogSequencial ==
    (arquivo0 \in {ArquivoAusente} \cup ArquivosBemFormados /\ UmaSessaoSo) =>
        IF feitas = <<>> THEN arquivo = arquivo0
        ELSE /\ arquivo.exists
             /\ arquivo.header = ColunasLog
             /\ arquivo.rows =
                  arquivo0.rows \o [k \in 1..Len(feitas) |-> RegistroDe(feitas[k])]

(* two scorings of one session have been appended to a log that had an entry *)
C2_Witness ==
    /\ arquivo0.rows # <<>>
    /\ arquivo0 \in ArquivosBemFormados
    /\ Len(feitas) >= 2
    /\ UmaSessaoSo
    /\ feitas[1].cliente # feitas[2].cliente
    /\ Len(arquivo.rows) = 3

(* every entry of file antes is in file depois, at its position and with the
   value of each of its columns *)
Preserva(antes, depois) ==
    /\ Len(antes.rows) <= Len(depois.rows)
    /\ \A i \in 1..Len(antes.rows) : \A c \in Range(antes.header) :
          /\ c \in Range(depois.header)
          /\ read_csv(depois).rows[i][c] = read_csv(antes).rows[i][c]

(* every row of frame df is in file depois, at its position and unchanged *)
PreservaFrame(df, depois) ==
    /\ Len(df.rows) <= Len(depois.rows)
    /\ \A i \in 1..Len(df.rows) : \A c \in Range(df.columns) :
          /\ c \in Range(depois.header)
          /\ read_csv(depois).rows[i][c] = df.rows[i][c]

(* C3 as claimed: every write keeps every entry that was in the file, at its
   position and unchanged *)
C3_SoAcrescenta == [][arquivo' # arquivo => Preserva(arquivo, arquivo')]_vars

(* C3 as amended: a write keeps every entry the writing run had loaded; it
   keeps every entry of the file when the run's load parsed the file and no
   scoring was completed between that load and the write *)
C3_AcrescentaAoCarregado ==
    [][\A s \in Sessoes :
         (arquivo' # arquivo /\ pc[s] = "form" /\ pc'[s] # "form") =>
            /\ PreservaFrame(df_log[s], arquivo')
            /\ (visto[s] = Len(feitas) /\ ~(arquivo.exists /\ LeituraFalha(arquivo)))
                  => Preserva(arquivo, arquivo')]_vars

(* a run that had loaded the old entry has written after it *)
C3_Witness ==
    /\ arquivo0.rows = <<LinhaAntiga>>
    /\ Len(feitas) >= 1
    /\ Len(arquivo.rows) >= 2
    /\ arquivo.rows[1] = LinhaAntiga

(* C4: the file holds what the last writer had loaded plus one entry; once a
   run has written after loading before an earlier write (both had loaded
   before either wrote), the file holds fewer entries than it had at first
   plus the completed scorings *)
C4_EscritaPerdida ==
    /\ feitas # <<>> => Len(arquivo.rows) = Ultimo(feitas).base + 1
    /\ (\E j \in 1..Len(feitas) : feitas[j].visto < j - 1)
          => Len(arquivo.rows) < Len(arquivo0.rows) + Len(feitas)

(* two sessions loaded the absent log, both wrote, one entry is in the file *)
C4_Witness ==
    /\ arquivo0 = ArquivoAusente
    /\ Len(feitas) = 2
    /\ feitas[1].sessao # feitas[2].sessao
    /\ feitas[1].visto = 0
    /\ feitas[2].visto = 0
    /\ arquivo.rows = <<RegistroDe(feitas[2])>>

(* C5 as claimed: in a run in which the write of the log file failed, the
   result of the scoring is shown *)
C5_FalhaDeEscritaNaoFatal ==
    \A s \in Sessoes :
        "excecao em to_csv" \in tela[s].erros => tela[s].resultado.mostrado

(* C6 as claimed: a log file of another schema is loaded as the empty log of
   the expected schema, and after the next completed scoring the file holds
   that one entry under the expected header *)
C6_EsquemaAntigoSubstituido ==
    arquivo0 \in ArquivosIncompativeis =>
        /\ \A s \in Sessoes :
              (pc[s] = "form" /\ feitas = <<>>) => df_log[s] = FrameVazio
        /\ Len(feitas) = 1 =>
              /\ arquivo.header = ColunasLog
              /\ arquivo.rows = <<RegistroDe(feitas[1])>>

(* C6 as amended: that holds of a file that read_csv cannot parse, one
   without data or whose header lacks the column timestamp; a file of another
   schema whose header has the column timestamp is loaded as it is, and the
   next completed scoring is appended to its rows, under its columns followed
   by the expected columns it lacks *)
C6_FalhaDeLeituraSubstituida ==
    /\ (arquivo0.exists /\ LeituraFalha(arquivo0)) =>
          /\ \A s \in Sessoes :
                (pc[s] = "form" /\ feitas = <<>>) => df_log[s] = FrameVazio
          /\ Len(feitas) = 1 =>
                /\ arquivo.header = ColunasLog
                /\ arquivo.rows = <<RegistroDe(feitas[1])>>
    /\ (arquivo0 \in ArquivosIncompativeis /\ ~LeituraFalha(arquivo0)) =>
          /\ \A s \in Sessoes :
                (pc[s] = "form" /\ feitas = <<>>) =>
                    /\ df_log[s].columns = arquivo0.header
                    /\ Len(df_log[s].rows) = Len(arquivo0.rows)
          /\ Len(feitas) = 1 =>
                /\ Len(arquivo.rows) = Len(arquivo0.rows) + 1
                /\ Preserva(arquivo0, arquivo)
                /\ arquivo.header # ColunasLog
                /\ \A c \in Range(ColunasLog) : c \in Range(arquivo.header)

(* a file whose header lacks timestamp has been replaced by one entry *)
C6_Witness ==
    /\ arquivo0.rows # <<>>
    /\ LeituraFalha(arquivo0)
    /\ Len(feitas) = 1
    /\ arquivo.header = ColunasLog
    /\ Len(arquivo.rows) = 1

(* Statements about the drift monitor.  While a session is at "form" its
   sidebar shows the monitor of the frame it loaded, at the present day. *)

RECURSIVE SomaIdades(_, _)
SomaIdades(linhas, I) ==
    IF I = {} THEN 0
    ELSE LET i == CHOOSE x \in I : TRUE
         IN linhas[i]["idade"] + SomaIdades(linhas, I \ {i})

(* v is the mean age, in tenths, of the rows I of linhas that have an age:
   the integer nearest to ten times the mean, the even one of two *)
EhMediaDe(v, linhas, I) ==
    LET K == {i \in I : linhas[i]["idade"] # NaN}
        n == Cardinality(K)
        d == 10 * SomaIdades(linhas, K) - v * n
    IN IF n = 0 THEN v = NaN
       ELSE /\ 2 * d <= n
            /\ -2 * d <= n
            /\ (2 * d = n \/ -2 * d = n) => v % 2 = 0

NaJanela(linhas) ==
    {i \in 1..Len(linhas) : linhas[i]["timestamp"] >= agora - 30}

(* C7 as claimed: no data is reported when the loaded log is empty, otherwise
   the mean age of the entries of the last 30 days, or of the whole log when
   there is none *)
C7_MediaOuSemDados ==
    \A s \in Sessoes : pc[s] = "form" =>
        IF df_log[s].rows = <<>> THEN tela[s].drift.tipo = "caption"
        ELSE /\ tela[s].drift.tipo = "metric"
             /\ EhMediaDe(tela[s].drift.valor, df_log[s].rows,
                          IF NaJanela(df_log[s].rows) # {}
                          THEN NaJanela(df_log[s].rows)
                          ELSE 1..Len(df_log[s].rows))

(* C7 as amended: no data is reported when the loaded log is empty or has no
   column idade; otherwise the mean of the ages present in the entries whose
   timestamp is at least now minus 30 days, or in all entries when no entry
   is in that window *)
C7_MediaOuSemDadosOuSemIdade ==
    \A s \in Sessoes : pc[s] = "form" =>
        IF df_log[s].rows = <<>> \/ "idade" \notin Range(df_log[s].columns)
        THEN tela[s].drift.tipo = "caption"
        ELSE /\ tela[s].drift.tipo = "metric"
             /\ EhMediaDe(tela[s].drift.valor, df_log[s].rows,
                          IF NaJanela(df_log[s].rows) # {}
                          THEN NaJanela(df_log[s].rows)
                          ELSE 1..Len(df_log[s].rows))

(* the only entry is older than 30 days and its age is reported *)
C7_Witness ==
    \E s \in Sessoes :
        /\ pc[s] = "form"
        /\ df_log[s].rows # <<>>
        /\ "idade" \in Range(df_log[s].columns)
        /\ NaJanela(df_log[s].rows) = {}
        /\ tela[s].drift = [tipo |-> "metric", valor |-> 400]

----------------------------------------------------------------------------
(* Statements about batch analysis and about the model, under SpecModelo *)

(* C8: the batch section of a run, whether it shows a table or an error,
   leaves the log file and every session's history as they were *)
C8_LoteNaoGrava ==
    [][\A s \in Sessoes :
         (pc[s] = "lote" /\ pc'[s] = "fim") =>
            /\ arquivo' = arquivo
            /\ historico' = historico]_vars

(* a batch table is shown in a run of a session that has a history, with
   entries in the log file *)
C8_Witness ==
    \E s \in Sessoes :
        /\ pc[s] = "fim"
        /\ tela[s].lote.mostrado
        /\ historico[s] # <<>>
        /\ arquivo.rows # <<>>

TemNomeadas(upload) ==
    \A c \in {"idade", "renda", "score_credito", "experiencia_credito"} :
        c \in Range(upload.header)

(* what the interactive path computes for the features of a row *)
Interativa(m, l) ==
    fazer_predicao(m, <<<<l["idade"], l["renda"], l["score_credito"],
                          l["experiencia_credito"]>>>>)

(* row by row, the shown table has the probability and the label of the
   interactive scoring of the row's features *)
LoteComoInterativa(s) ==
    LET entrada == read_csv(tela[s].lote.enviado).rows
        saida == tela[s].lote.rows
    IN /\ Len(saida) = Len(entrada)
       /\ \A i \in 1..Len(entrada) :
             /\ saida[i]["Probabilidade"] = Interativa(modelo.valor, entrada[i])[1]
             /\ saida[i]["Resultado"] \in {"Aprovado", "Negado"}
             /\ saida[i]["Resultado"] = "Aprovado" <=>
                   Interativa(modelo.valor, entrada[i])[2] = 1

(* the shown table has the columns C of the upload, with their values *)
ColunasPreservadas(s, C) ==
    LET entrada == read_csv(tela[s].lote.enviado).rows
        saida == tela[s].lote.rows
    IN \A c \in C :
          /\ c \in Range(tela[s].lote.columns)
          /\ \A i \in 1..Len(entrada) : saida[i][c] = entrada[i][c]

(* C9 as claimed: for an upload with the four named columns, the rows shown
   agree with interactive scoring and every column of the upload is kept *)
C9_LotePorNome ==
    \A s \in Sessoes :
        (tela[s].lote.mostrado /\ TemNomeadas(tela[s].lote.enviado)) =>
            /\ LoteComoInterativa(s)
            /\ ColunasPreservadas(s, Range(tela[s].lote.enviado.header))

(* C9 as amended: every column of the upload is kept except one named
   Probabilidade or Resultado, whose values are replaced by the batch's *)
C9_LotePorNomeSalvoSaida ==
    \A s \in Sessoes :
        (tela[s].lote.mostrado /\ TemNomeadas(tela[s].lote.enviado)) =>
            /\ LoteComoInterativa(s)
            /\ ColunasPreservadas(s, Range(tela[s].lote.enviado.header)
                                       \ {"Probabilidade", "Resultado"})

(* the table with the named columns out of order is shown, a row approved
   and a row denied *)
C9_Witness ==
    \E s \in Sessoes :
        /\ tela[s].lote.mostrado
        /\ tela[s].lote.enviado.header[1] = "score_credito"
        /\ tela[s].lote.rows[1]["Resultado"] = "Aprovado"
        /\ tela[s].lote.rows[2]["Resultado"] = "Negado"
        /\ tela[s].lote.rows[2]["nome"] = 8

(* C10: while the cached model is None no run reaches the form or the batch
   section, and no step but a restart of the process changes the cache, the
   log file or a history; and a press of the button on which fazer_predicao
   raises shows the error, no result, leaves the log file and the histories
   as they were and lets the run go on to the batch section *)
C10_FalhaSemEfeito ==
    [][/\ (modelo.carregado /\ modelo.valor = ModeloNone /\ modelo' # CacheVazio) =>
            /\ modelo' = modelo
            /\ arquivo' = arquivo
            /\ historico' = historico
            /\ feitas' = feitas
            /\ \A s \in Sessoes :
                  /\ pc'[s] \in {"idle", "fim"}
                  /\ ~tela'[s].resultado.mostrado
                  /\ ~tela'[s].lote.mostrado
       /\ \A s \in Sessoes :
            (/\ pc[s] = "form"
             /\ pc'[s] # "form"
             /\ tela'[s] # tela[s]
             /\ modelo' # CacheVazio
             /\ PredicaoFalha(modelo.valor, <<<<0, 0, 0, 0>>>>)) =>
                /\ "Erro na predicao" \in tela'[s].erros
                /\ ~tela'[s].resultado.mostrado
                /\ pc'[s] = "lote"
                /\ arquivo' = arquivo
                /\ historico' = historico
                /\ feitas' = feitas]_vars

(* the artefact has been repaired, the cache still holds None and a run has
   ended on the error *)
C10_Witness ==
    \E s \in Sessoes :
        /\ modelo.carregado
        /\ modelo.valor = ModeloNone
        /\ artefato \in ArtefatosBons
        /\ pc[s] = "fim"
        /\ "Nao foi possivel carregar o modelo" \in tela[s].erros

----------------------------------------------------------------------------
(* Statements about the order of sidebar, history and log within a run *)

(* the log entries session s has written since the process started *)
EscritasDe(s) == {k \in 1..Len(feitas) : feitas[k].sessao = s}

(* the history item of the scoring whose result the run of s shows *)
ItemMostrado(s) ==
    [hora |-> agora,
     resultado |-> IF tela[s].resultado.decisao = 1 THEN "Aprovado" ELSE "Negado",
     probabilidade |-> tela[s].resultado.probabilidade]

(* the sidebar of a run shows the history and the drift of the log as they
   were when the run started: before the button is served the table is the
   session's history; once a scoring is shown the table is the history
   without the item of that scoring, and the drift value is still the one
   rendered before the entry was added to the frame *)
SidebarDoInicio ==
    \A s \in Sessoes :
        /\ pc[s] = "form" =>
              /\ tela[s].hist = historico[s]
              /\ tela[s].drift = monitor_drift(df_log[s], agora)
        /\ (pc[s] \in {"lote", "fim"} /\ tela[s].resultado.mostrado) =>
              /\ historico[s] = Append(tela[s].hist, ItemMostrado(s))
              /\ LET n == Len(df_log[s].rows)
                 IN /\ n >= 1
                    /\ df_log[s].rows[n]["timestamp"] = agora
                    /\ (n = 1 => tela[s].drift.tipo = "caption")

(* a run that ended without an uncaught exception *)
RunCompleto(s) == pc[s] = "fim" /\ "excecao em to_csv" \notin tela[s].erros

(* C11: the sidebar of a run reflects the history and the log as they were at
   the start of the run, the entry of the run's scoring appearing in it only
   on the next run; and after every completed run the session's history has
   as many items as the session has written log entries *)
C11_SidebarEGanho ==
    /\ SidebarDoInicio
    /\ \A s \in Sessoes :
          RunCompleto(s) => Len(historico[s]) = Cardinality(EscritasDe(s))

====
